---- MODULE Spec2Model ----
(***************************************************************************)
(* The authentication gateway of app/main.py: POST /token, GET /user and   *)
(* GET /admin, over the user table, the clock and the upstream API.        *)
(*                                                                         *)
(* One HTTP request is in flight at a time (req).  A handler is cut into   *)
(* steps where the code can be suspended: a protected GET runs its         *)
(* dependencies (get_current_user, get_current_active_user), then the      *)
(* route body up to "await client.get", then the rest of the body when the *)
(* upstream has answered; POST /token runs up to "await client.post", then *)
(* the rest.  The clock and the user table may change between the steps    *)
(* of one request.  The last step of a handler answers the request; the    *)
(* answer is handed back (Respond) before the clock or the table moves     *)
(* again, so an answered request is seen next to the table and the clock   *)
(* of its last step.                                                       *)
(*                                                                         *)
(* The provisioning script (app/db/init_db.py) runs next to the server: it *)
(* looks at the table once and then creates the initial users one by one,  *)
(* each create_user writing its own row, so requests may be served between *)
(* its steps.                                                              *)
(***************************************************************************)
EXTENDS Integers, FiniteSets, Sequences, TLC

VARIABLES store, now, minted, req, script

vars == <<store, now, minted, req, script>>

(***************************************************************************)
(* Bounds of the model.                                                    *)
(***************************************************************************)
\* The clock advances in steps of the token lifetime, MaxTicks times.
MaxTicks == 1
\* Session tokens minted by successful logins.
MaxLogins == 2

(***************************************************************************)
(* Configuration and provisioning.                                         *)
(***************************************************************************)
ACCESS_TOKEN_EXPIRE_MINUTES == 30

SECRET_KEY == "server-secret"

OtherKey == "attacker-key"

None == "<None>"

Roles == {"user", "admin"}

INITIAL_USERS ==
    << [username |-> "user",  password |-> "L0XuwPOdS5U", role |-> "user"],
       [username |-> "admin", password |-> "JKSipm0YH",   role |-> "admin"] >>

Usernames == { INITIAL_USERS[i].username : i \in DOMAIN INITIAL_USERS }

\* What a client may type at POST /token.
LoginNames == Usernames \cup {"nobody"}
LoginPasswords == { INITIAL_USERS[i].password : i \in DOMAIN INITIAL_USERS }

\* Opaque access tokens the upstream token endpoint may hand out.
UpstreamTokens == {"ext-a", "ext-b"}

(***************************************************************************)
(* Credential store (app.crud.user, app.models.user).                      *)
(***************************************************************************)
get_password_hash(password) == <<"hash", password>>

verify_password(password, hashed) == get_password_hash(password) = hashed

NoUser ==
    [present |-> FALSE, username |-> None, hashed_password |-> <<"hash", None>>,
     role |-> None, is_active |-> FALSE]

create_user(username, password, role) ==
    [present |-> TRUE, username |-> username,
     hashed_password |-> get_password_hash(password),
     role |-> role, is_active |-> TRUE]

\* The table as create_all leaves it.
EmptyTable == [ n \in Usernames |-> NoUser ]

\* The guard of init_db: the table holds a row already.
already_initialized(db) == \E n \in DOMAIN db : db[n].present

\* One turn of the loop of init_db: the i-th initial user is created.
create_initial_user(db, i) ==
    LET u == INITIAL_USERS[i]
    IN  [db EXCEPT ![u.username] = create_user(u.username, u.password, u.role)]

RECURSIVE create_initial_users(_, _)
create_initial_users(db, i) ==
    IF i > Len(INITIAL_USERS) THEN db
    ELSE create_initial_users(create_initial_user(db, i), i + 1)

\* init_db run from its first line to its last: a table that holds a row
\* already is left as it is.
init_db(db) ==
    IF already_initialized(db) THEN db ELSE create_initial_users(db, 1)

get_user(db, username) ==
    IF username \in DOMAIN db /\ db[username].present THEN db[username] ELSE NoUser

\* The record, only if the password matches and the user is active.
authenticate_user(db, username, password) ==
    LET user == get_user(db, username)
    IN  IF user = NoUser THEN NoUser
        ELSE IF ~verify_password(password, user.hashed_password) THEN NoUser
        ELSE IF ~user.is_active THEN NoUser
        ELSE user

(***************************************************************************)
(* Token codec (app.core.security).  A token is its claims and a MAC over  *)
(* them; the MAC is ideal: it matches only the claims and key it was       *)
(* computed from.                                                          *)
(***************************************************************************)
NoPayload == [sub |-> None, role |-> None, ext_token |-> None, exp |-> 0]

Mac(payload, key) == [key |-> key, over |-> payload]

Sign(payload, key) == [kind |-> "jwt", payload |-> payload, mac |-> Mac(payload, key)]

NoToken == [kind |-> "absent", payload |-> NoPayload, mac |-> Mac(NoPayload, None)]

Garbage == [kind |-> "garbage", payload |-> NoPayload, mac |-> Mac(NoPayload, None)]

create_access_token(data, expires_delta, t) ==
    Sign([sub |-> data.sub, role |-> data.role, ext_token |-> data.ext_token,
          exp |-> t + expires_delta], SECRET_KEY)

\* err is "none" and payload the claims, or err is the DecodeError kind.
decode_access_token(token, t) ==
    IF token.kind # "jwt" THEN [err |-> "Malformed", payload |-> NoPayload]
    ELSE IF token.mac # Mac(token.payload, SECRET_KEY)
         THEN [err |-> "BadSignature", payload |-> NoPayload]
    ELSE IF t >= token.payload.exp THEN [err |-> "Expired", payload |-> NoPayload]
    ELSE [err |-> "none", payload |-> token.payload]

(***************************************************************************)
(* Upstream API: what one HTTP call to it may come to.                     *)
(***************************************************************************)
Unreachable ==
    [kind |-> "unreachable", status_code |-> 0, json |-> FALSE,
     access_token |-> None, body |-> None]

NoOutcome ==
    [kind |-> "none", status_code |-> 0, json |-> FALSE,
     access_token |-> None, body |-> None]

UpstreamReply(status_code, json, access_token, body) ==
    [kind |-> "response", status_code |-> status_code, json |-> json,
     access_token |-> access_token, body |-> body]

\* POST {FAKE_API_BASE_URL}/token
TokenOutcomes ==
    {Unreachable}
    \cup { UpstreamReply(200, TRUE, x, "token") : x \in UpstreamTokens }
    \cup { UpstreamReply(401, TRUE, None, "rejected") }
    \cup { UpstreamReply(200, FALSE, None, "not json") }

\* GET {FAKE_API_BASE_URL}/user and /admin
GetOutcomes ==
    { Unreachable,
      UpstreamReply(200, TRUE, None, "upstream data"),
      UpstreamReply(401, TRUE, None, "upstream refusal"),
      UpstreamReply(200, FALSE, None, "not json") }

(***************************************************************************)
(* Responses.                                                              *)
(***************************************************************************)
NoResponse ==
    [status |-> 0, detail |-> None, log |-> None, called |-> FALSE,
     path |-> None, bearer |-> None, payload |-> None,
     access_token |-> NoToken, token_type |-> None, role |-> None]

HTTPException(status_code, detail, log) ==
    [NoResponse EXCEPT !.status = status_code, !.detail = detail, !.log = log]

\* str(e) of an HTTPException: "<status_code>: <detail>"
StrHTTPException(status_code, detail) == ToString(status_code) \o ": " \o detail

credentials_exception(log) == HTTPException(401, "Could not validate credentials", log)

(***************************************************************************)
(* Authorization gate: the dependencies of the protected routes.           *)
(***************************************************************************)
\* get_current_user without the comparison of the stored role with the claim.
get_current_user_trusting_claim(token, db, t) ==
    LET d        == decode_access_token(token, t)
        username == d.payload.sub
        role     == d.payload.role
        user     == get_user(db, username)
        reject(log) == [ok |-> FALSE, user |-> NoUser, resp |-> credentials_exception(log)]
    IN  IF d.err # "none" THEN reject("JWT Error")
        ELSE IF username = None \/ role = None THEN reject("Username or role is None")
        ELSE IF user = NoUser THEN reject("User not found in database")
        ELSE [ok |-> TRUE, user |-> [user EXCEPT !.role = role], resp |-> NoResponse]

\* get_current_user reading the claims without verifying the signature.
get_current_user_unverified(token, db, t) ==
    LET claims   == IF token.kind = "jwt" /\ t < token.payload.exp
                    THEN [err |-> "none", payload |-> token.payload]
                    ELSE decode_access_token(token, t)
        username == claims.payload.sub
        role     == claims.payload.role
        user     == get_user(db, username)
        reject(log) == [ok |-> FALSE, user |-> NoUser, resp |-> credentials_exception(log)]
    IN  IF claims.err # "none" THEN reject("JWT Error")
        ELSE IF username = None \/ role = None THEN reject("Username or role is None")
        ELSE IF user = NoUser THEN reject("User not found in database")
        ELSE IF user.role # role THEN reject("Role mismatch")
        ELSE [ok |-> TRUE, user |-> user, resp |-> NoResponse]

\* [ok, user, resp]: the user row, or the response that ends the request.
get_current_user(token, db, t) ==
    LET d        == decode_access_token(token, t)
        username == d.payload.sub
        role     == d.payload.role
        user     == get_user(db, username)
        reject(log) == [ok |-> FALSE, user |-> NoUser, resp |-> credentials_exception(log)]
    IN  IF d.err # "none" THEN reject("JWT Error")
        ELSE IF username = None \/ role = None THEN reject("Username or role is None")
        ELSE IF user = NoUser THEN reject("User not found in database")
        ELSE IF user.role # role THEN reject("Role mismatch")
        ELSE [ok |-> TRUE, user |-> user, resp |-> NoResponse]

\* get_current_active_user letting a deactivated user through.
get_current_active_user_unchecked(current) == current

get_current_active_user(current) ==
    IF current.ok /\ ~current.user.is_active
    THEN [ok |-> FALSE, user |-> NoUser,
          resp |-> HTTPException(400, "Inactive user", None)]
    ELSE current

(***************************************************************************)
(* Route bodies.                                                           *)
(***************************************************************************)
\* The try block of read_user_route and read_admin_route up to its await:
\* decode again, take ext_token, send GET path upstream.  The result either
\* is the request on its way (status 0, called) or the 500 that "except
\* Exception" makes of what was raised before anything was sent.
proxy_request(path, token, t) ==
    LET d == decode_access_token(token, t)
        external_token == d.payload.ext_token
    IN  IF d.err # "none"
        THEN HTTPException(500, d.err, None)
        ELSE IF external_token = None
        THEN HTTPException(500, StrHTTPException(401, "External token not found"), None)
        ELSE [NoResponse EXCEPT !.called = TRUE, !.path = path,
                                !.bearer = external_token]

\* The rest of the try block, when the await is over: response.json() is
\* returned whatever the status; every exception becomes a 500 with str(e).
proxy_reply(sent, outcome) ==
    IF outcome.kind = "unreachable"
    THEN [sent EXCEPT !.status = 500, !.detail = "ConnectError"]
    ELSE IF ~outcome.json
    THEN [sent EXCEPT !.status = 500, !.detail = "JSONDecodeError"]
    ELSE [sent EXCEPT !.status = 200, !.payload = outcome.body]

user_route_allows(role) == role \in {"user", "admin"}

\* The admin route with the user route's role list.
admin_route_allows_user(role) == role \in {"user", "admin"}

admin_route_allows(role) == role = "admin"

\* The route bodies up to their await.
read_user_route(current_user, token, t) ==
    IF ~user_route_allows(current_user.role)
    THEN HTTPException(403, "Not enough permissions", None)
    ELSE proxy_request("/user", token, t)

\* read_admin_route sending its upstream request without looking at the
\* role.
read_admin_route_proxy_first(current_user, token, t) ==
    proxy_request("/admin", token, t)

read_admin_route(current_user, token, t) ==
    IF ~admin_route_allows(current_user.role)
    THEN HTTPException(403, "Not enough permissions", None)
    ELSE proxy_request("/admin", token, t)

(***************************************************************************)
(* POST /token.                                                            *)
(***************************************************************************)
\* login_for_access_token sending the credentials upstream before it checks
\* them locally.
login_exchange_first(username, password, db) ==
    LET user == authenticate_user(db, username, password)
        sent == [NoResponse EXCEPT !.called = TRUE, !.path = "/token"]
    IN  IF user = NoUser
        THEN [user |-> NoUser,
              resp |-> [HTTPException(401, "Incorrect username or password", None)
                            EXCEPT !.called = TRUE, !.path = "/token"]]
        ELSE [user |-> user, resp |-> sent]

\* login_for_access_token up to its await: [user, resp], the row that
\* authenticate_user loaded (NoUser if none) and either the 401 or the
\* exchange request on its way (status 0, called).
login_for_access_token(username, password, db) ==
    LET user == authenticate_user(db, username, password)
        sent == [NoResponse EXCEPT !.called = TRUE, !.path = "/token"]
    IN  IF user = NoUser
        THEN [user |-> NoUser,
              resp |-> HTTPException(401, "Incorrect username or password", None)]
        ELSE [user |-> user, resp |-> sent]

\* What f"{status_code}: {response.text}" gives for a non-200 reply.
UpstreamErrorDetail(outcome) ==
    ToString(outcome.status_code) \o ": " \o outcome.body

\* The rest of the try block without "except Exception": the HTTPException
\* raised for a non-200 reply reaches the client with the upstream's status.
exchange_and_mint_uncaught(user, outcome, t) ==
    LET sent == [NoResponse EXCEPT !.called = TRUE, !.path = "/token"]
    IN  IF outcome.kind = "unreachable"
        THEN [sent EXCEPT !.status = 500, !.detail = "ConnectError"]
        ELSE IF outcome.status_code # 200
        THEN [sent EXCEPT !.status = outcome.status_code,
                          !.detail = UpstreamErrorDetail(outcome)]
        ELSE IF ~outcome.json
        THEN [sent EXCEPT !.status = 500, !.detail = "JSONDecodeError"]
        ELSE [sent EXCEPT !.status = 200,
                          !.access_token =
                              create_access_token(
                                  [sub |-> user.username, role |-> user.role,
                                   ext_token |-> outcome.access_token],
                                  ACCESS_TOKEN_EXPIRE_MINUTES, t),
                          !.token_type = "bearer",
                          !.role = user.role]

\* The rest of the try block embedding the reply's text where its
\* access_token belongs.
exchange_and_mint_wrong_field(user, outcome, t) ==
    LET sent == [NoResponse EXCEPT !.called = TRUE, !.path = "/token"]
    IN  IF outcome.kind = "unreachable"
        THEN [sent EXCEPT !.status = 500, !.detail = "ConnectError"]
        ELSE IF outcome.status_code # 200
        THEN [sent EXCEPT !.status = 500,
                          !.detail = StrHTTPException(outcome.status_code,
                                                      UpstreamErrorDetail(outcome))]
        ELSE IF ~outcome.json
        THEN [sent EXCEPT !.status = 500, !.detail = "JSONDecodeError"]
        ELSE [sent EXCEPT !.status = 200,
                          !.access_token =
                              create_access_token(
                                  [sub |-> user.username, role |-> user.role,
                                   ext_token |-> outcome.body],
                                  ACCESS_TOKEN_EXPIRE_MINUTES, t),
                          !.token_type = "bearer",
                          !.role = user.role]

\* The rest of the try block, when the await is over: user is the row
\* loaded before the await, t the clock now.  A non-200 reply raises an
\* HTTPException whose detail is "<status>: <text>"; "except Exception"
\* answers 500 with str(e) of it, which prefixes the status once more.  A
\* 200 reply gives the session token, minted from the loaded row.
exchange_and_mint(user, outcome, t) ==
    LET sent == [NoResponse EXCEPT !.called = TRUE, !.path = "/token"]
    IN  IF outcome.kind = "unreachable"
        THEN [sent EXCEPT !.status = 500, !.detail = "ConnectError"]
        ELSE IF outcome.status_code # 200
        THEN [sent EXCEPT !.status = 500,
                          !.detail = StrHTTPException(outcome.status_code,
                                                      UpstreamErrorDetail(outcome))]
        ELSE IF ~outcome.json
        THEN [sent EXCEPT !.status = 500, !.detail = "JSONDecodeError"]
        ELSE [sent EXCEPT !.status = 200,
                          !.access_token =
                              create_access_token(
                                  [sub |-> user.username, role |-> user.role,
                                   ext_token |-> outcome.access_token],
                                  ACCESS_TOKEN_EXPIRE_MINUTES, t),
                          !.token_type = "bearer",
                          !.role = user.role]

(***************************************************************************)
(* State.                                                                  *)
(*   store   the user table                                                *)
(*   now     the clock, in minutes                                         *)
(*   minted  the successful logins so far: the session token issued and    *)
(*           the access token the upstream exchange of that login returned  *)
(*   script  where the provisioning script stands: 0 when it is not        *)
(*           running, else the index of the initial user it creates next   *)
(*   req     the request in flight or just answered; pc is where its       *)
(*           handler stands: "route" before the route body, "proxy" and    *)
(*           "exchange" at the await of a route body and of the login,     *)
(*           "done" when answered                                          *)
(***************************************************************************)
NoRequest ==
    [pc |-> "idle", route |-> None, username |-> None, password |-> None,
     token |-> NoToken, user |-> NoUser, upstream |-> NoOutcome, resp |-> NoResponse]

Init ==
    /\ store = init_db(EmptyTable)
    /\ now = 0
    /\ minted = {}
    /\ req = NoRequest
    /\ script = 0

MintedTokens == { m.token : m \in minted }

\* The same claims with the role switched, under the old MAC.
Tamper(token) ==
    [token EXCEPT !.payload.role = IF @ = "admin" THEN "user" ELSE "admin"]

FarFuture == (MaxTicks + 1) * ACCESS_TOKEN_EXPIRE_MINUTES

\* An admin token signed with a key that is not the server's.
Forged ==
    Sign([sub |-> "admin", role |-> "admin", ext_token |-> "ext-a", exp |-> FarFuture],
         OtherKey)

\* Tokens under the server's key that lack a claim get_current_user asks
\* for: what another issuer holding the same SECRET_KEY could hand out.
Crafted ==
    { Sign([sub |-> None, role |-> "user", ext_token |-> "ext-a", exp |-> FarFuture], SECRET_KEY),
      Sign([sub |-> "user", role |-> None, ext_token |-> "ext-a", exp |-> FarFuture], SECRET_KEY) }

\* What a client may put in the Authorization header.
Presentable ==
    MintedTokens
    \cup { Tamper(k) : k \in MintedTokens }
    \cup {Forged, Garbage}
    \cup Crafted

(***************************************************************************)
(* Actions.                                                                *)
(***************************************************************************)
\* POST /token with body {username, password} arrives: the credentials are
\* checked against the table and, if they pass, sent upstream.
PostToken(username, password) ==
    LET r == login_for_access_token(username, password, store)
    IN  /\ req.pc = "idle"
        /\ req' = [NoRequest EXCEPT !.pc = IF r.resp.status = 0 THEN "exchange" ELSE "done",
                                    !.route = "/token",
                                    !.username = username, !.password = password,
                                    !.user = r.user, !.resp = r.resp]
        /\ UNCHANGED <<store, now, minted, script>>

\* The upstream token endpoint has answered, or could not be reached.
TokenReply(outcome) ==
    LET r == exchange_and_mint(req.user, outcome, now)
        entry == [token |-> r.access_token, upstream_token |-> outcome.access_token]
    IN  /\ req.pc = "exchange"
        /\ r.status = 200 => (entry \in minted \/ Cardinality(minted) < MaxLogins)
        /\ req' = [req EXCEPT !.pc = "done", !.upstream = outcome, !.resp = r]
        /\ minted' = IF r.status = 200 THEN minted \cup {entry} ELSE minted
        /\ UNCHANGED <<store, now, script>>

\* A GET on a protected route arrives with a bearer token and FastAPI
\* resolves Depends(get_current_active_user).
Authenticate(route, token) ==
    LET a == get_current_active_user(get_current_user(token, store, now))
    IN  /\ req.pc = "idle"
        /\ req' = [NoRequest EXCEPT !.pc = IF a.ok THEN "route" ELSE "done",
                                    !.route = route, !.token = token,
                                    !.user = a.user, !.resp = a.resp]
        /\ UNCHANGED <<store, now, minted, script>>

ReadUserRoute ==
    LET r == read_user_route(req.user, req.token, now)
    IN  /\ req.pc = "route"
        /\ req.route = "/user"
        /\ req' = [req EXCEPT !.pc = IF r.status = 0 THEN "proxy" ELSE "done",
                              !.resp = r]
        /\ UNCHANGED <<store, now, minted, script>>

ReadAdminRoute ==
    LET r == read_admin_route(req.user, req.token, now)
    IN  /\ req.pc = "route"
        /\ req.route = "/admin"
        /\ req' = [req EXCEPT !.pc = IF r.status = 0 THEN "proxy" ELSE "done",
                              !.resp = r]
        /\ UNCHANGED <<store, now, minted, script>>

\* The upstream has answered the GET of a route body, or could not be
\* reached.
ProxyReply(outcome) ==
    /\ req.pc = "proxy"
    /\ req' = [req EXCEPT !.pc = "done", !.upstream = outcome,
                          !.resp = proxy_reply(req.resp, outcome)]
    /\ UNCHANGED <<store, now, minted, script>>

\* The response goes back to the client.
Respond ==
    /\ req.pc = "done"
    /\ req' = NoRequest
    /\ UNCHANGED <<store, now, minted, script>>

\* Time passes (while no answered request is waiting to be handed back).
Tick ==
    /\ req.pc # "done"
    /\ now + ACCESS_TOKEN_EXPIRE_MINUTES <= MaxTicks * ACCESS_TOKEN_EXPIRE_MINUTES
    /\ now' = now + ACCESS_TOKEN_EXPIRE_MINUTES
    /\ UNCHANGED <<store, minted, req, script>>

\* The user table is changed from outside the request handlers.
ChangeRole(username, role) ==
    /\ req.pc # "done"
    /\ store[username].present
    /\ store[username].role # role
    /\ store' = [store EXCEPT ![username].role = role]
    /\ UNCHANGED <<now, minted, req, script>>

SetActive(username, active) ==
    /\ req.pc # "done"
    /\ store[username].present
    /\ store[username].is_active # active
    /\ store' = [store EXCEPT ![username].is_active = active]
    /\ UNCHANGED <<now, minted, req, script>>

DeleteUser(username) ==
    /\ req.pc # "done"
    /\ store[username].present
    /\ store' = [store EXCEPT ![username] = NoUser]
    /\ UNCHANGED <<now, minted, req, script>>

\* The provisioning script is started and looks at the table; it goes on
\* to its loop only if the table is empty (otherwise it returns at once,
\* having changed nothing).
RunInitDb ==
    /\ req.pc # "done"
    /\ script = 0
    /\ ~already_initialized(store)
    /\ script' = 1
    /\ UNCHANGED <<store, now, minted, req>>

\* The script creates its next initial user; after the last it ends.
CreateInitialUser ==
    /\ req.pc # "done"
    /\ script > 0
    /\ store' = create_initial_user(store, script)
    /\ script' = IF script = Len(INITIAL_USERS) THEN 0 ELSE script + 1
    /\ UNCHANGED <<now, minted, req>>

Next ==
    \/ \E u \in LoginNames, p \in LoginPasswords : PostToken(u, p)
    \/ \E o \in TokenOutcomes : TokenReply(o)
    \/ \E r \in {"/user", "/admin"}, k \in Presentable : Authenticate(r, k)
    \/ ReadUserRoute
    \/ ReadAdminRoute
    \/ \E o \in GetOutcomes : ProxyReply(o)
    \/ Respond
    \/ Tick
    \/ \E u \in Usernames, r \in Roles : ChangeRole(u, r)
    \/ \E u \in Usernames, b \in BOOLEAN : SetActive(u, b)
    \/ \E u \in Usernames : DeleteUser(u)
    \/ RunInitDb
    \/ CreateInitialUser

Spec == Init /\ [][Next]_vars

(***************************************************************************)
(* Vocabulary of the properties.                                           *)
(***************************************************************************)
Protected == {"/user", "/admin"}

GenericMessage == "Could not validate credentials"

\* The step in which a protected GET is authenticated and the step of its
\* route body up to the await; the step in which a POST /token checks the
\* credentials and the step after its await, which answers it.
AuthStep == req.pc = "idle" /\ req'.route \in Protected

RouteStep == req.pc = "route" /\ req'.pc \in {"proxy", "done"}

LoginStep == req.pc = "idle" /\ req'.route = "/token"

ExchangeStep == req.pc = "exchange" /\ req'.pc = "done"

\* The three conditions of the token validity invariant, and the active flag,
\* stated on the token, the user table and the clock themselves.
SignatureVerifies(token) ==
    token.kind = "jwt" /\ token.mac = Mac(token.payload, SECRET_KEY)

Unexpired(token, t) == t < token.payload.exp

SubjectRow(token, db) == get_user(db, token.payload.sub)

RoleOnRecord(token, db) ==
    SubjectRow(token, db).present /\ SubjectRow(token, db).role = token.payload.role

SubjectActive(token, db) == SubjectRow(token, db).is_active

\* The role claim no longer is the stored role of an existing subject.
Stale(token, db) ==
    SubjectRow(token, db).present /\ SubjectRow(token, db).role # token.payload.role

RouteAllows(route, role) ==
    IF route = "/admin" THEN role = "admin" ELSE role \in {"user", "admin"}

Rejected401(r) ==
    r.pc = "done" /\ r.resp.status = 401 /\ r.resp.detail = GenericMessage
    /\ ~r.resp.called /\ r.resp.payload = None

(***************************************************************************)
(* C1  Role-staleness.  Whenever a protected GET is authenticated with a   *)
(* token some login minted and the role stored for its subject differs     *)
(* from the token's role claim, the request ends there: 401 with the       *)
(* generic message, no route body, no upstream call; and while the token   *)
(* has not expired the failure is the role mismatch.                       *)
(***************************************************************************)
C1_RoleStaleness ==
    [][ (AuthStep /\ req'.token \in MintedTokens /\ Stale(req'.token, store))
        => /\ Rejected401(req')
           /\ req'.user = NoUser
           /\ Unexpired(req'.token, now) => req'.resp.log = "Role mismatch" ]_vars

\* A minted token was refused for its stale role.
C1_Witness ==
    /\ req.pc = "done"
    /\ req.route \in Protected
    /\ req.token \in MintedTokens
    /\ Stale(req.token, store)
    /\ req.resp.log = "Role mismatch"
    /\ req.resp.status = 401

(***************************************************************************)
(* C2  Role-based authorization.  Once a request is authenticated as an    *)
(* active user, GET /admin answers 403 unless the role is exactly admin,   *)
(* and never 403 when it is; GET /user never answers 403 for role user or  *)
(* admin; and a request whose upstream call returned JSON is answered 200  *)
(* with that payload, so role user gets 403 on /admin and 200 on /user.    *)
(***************************************************************************)
C2_RoleAuthorization ==
    (req.pc = "done" /\ req.route \in Protected /\ req.user # NoUser) =>
        /\ (req.route = "/admin" /\ req.user.role # "admin") => req.resp.status = 403
        /\ (req.route = "/admin" /\ req.user.role = "admin") => req.resp.status # 403
        /\ (req.route = "/user" /\ req.user.role \in {"user", "admin"})
               => req.resp.status # 403
        /\ req.resp.status = 200 => RouteAllows(req.route, req.user.role)
        /\ (RouteAllows(req.route, req.user.role)
            /\ req.upstream.kind = "response" /\ req.upstream.json)
               => req.resp.status = 200 /\ req.resp.payload = req.upstream.body

\* Role user was refused on /admin.
C2_Witness ==
    /\ req.pc = "done"
    /\ req.route = "/admin"
    /\ req.user.role = "user"
    /\ req.user.is_active
    /\ req.resp.status = 403

(***************************************************************************)
(* C3  Upstream failure at login.  A POST /token whose credentials the     *)
(* local store accepts and whose upstream exchange fails (no connection,   *)
(* a reply with a status other than 200, or a reply that is not the       *)
(* expected JSON) is answered 500, never 401, and carries no token.        *)
(***************************************************************************)
ExchangeFailed(outcome) ==
    \/ outcome.kind = "unreachable"
    \/ outcome.kind = "response" /\ (outcome.status_code # 200 \/ ~outcome.json)

\* C3: good local credentials and a failed exchange give 500 and no token.
C3_UpstreamFailureIs500 ==
    [][ /\ (LoginStep /\ authenticate_user(store, req'.username, req'.password) # NoUser)
           => req'.pc = "exchange"
        /\ req'.pc = "exchange"
           => authenticate_user(store, req'.username, req'.password) # NoUser
              \/ req.pc = "exchange"
        /\ (ExchangeStep /\ ExchangeFailed(req'.upstream))
           => /\ req'.resp.status = 500
              /\ req'.resp.access_token = NoToken
              /\ req'.resp.token_type = None
              /\ minted' = minted ]_vars

\* The upstream refused good local credentials with its own 401.
C3_Witness ==
    /\ req.pc = "done"
    /\ req.route = "/token"
    /\ req.user # NoUser
    /\ req.upstream.kind = "response"
    /\ req.upstream.status_code = 401
    /\ req.resp.status = 500
    /\ req.resp.detail = "401: 401: rejected"

(***************************************************************************)
(* C4  Login ordering.  A POST /token whose username and password the      *)
(* local store does not accept is answered 401 without the upstream token  *)
(* endpoint being called and without a token being minted; the upstream is *)
(* called only after the local check has passed.                           *)
(***************************************************************************)
C4_LocalCheckFirst ==
    [][ LoginStep =>
          /\ authenticate_user(store, req'.username, req'.password) = NoUser
               => /\ req'.pc = "done"
                  /\ req'.resp.status = 401
                  /\ ~req'.resp.called
                  /\ req'.upstream = NoOutcome
                  /\ req'.resp.access_token = NoToken
                  /\ minted' = minted
          /\ req'.resp.called
               => /\ authenticate_user(store, req'.username, req'.password) # NoUser
                  /\ req'.pc = "exchange"
                  /\ req'.user = authenticate_user(store, req'.username, req'.password) ]_vars

\* A known user typed another user's password.
C4_Witness ==
    /\ req.pc = "done"
    /\ req.route = "/token"
    /\ req.username \in Usernames
    /\ store[req.username].present
    /\ store[req.username].is_active
    /\ ~verify_password(req.password, store[req.username].hashed_password)
    /\ req.resp.status = 401

(***************************************************************************)
(* C5  Authenticate, then authorize, then call upstream.  A protected GET  *)
(* whose authentication fails (decode failure, missing claim, unknown      *)
(* user, role mismatch, inactive user) ends at that step with an error     *)
(* status; one whose role the route does not allow ends with 403; in both  *)
(* cases no upstream call is made and no payload returned.  An upstream    *)
(* call is only ever made for an authenticated user the route allows.      *)
(***************************************************************************)
Authentic(token, db, t) ==
    /\ SignatureVerifies(token)
    /\ Unexpired(token, t)
    /\ RoleOnRecord(token, db)
    /\ SubjectActive(token, db)

\* C5: a failed authentication or authorization ends the request with an
\* error and without an upstream call; the call needs both to have passed.
C5_AuthenticateAuthorizeCall ==
    [][ /\ (AuthStep /\ ~Authentic(req'.token, store, now))
           => /\ req'.pc = "done"
              /\ req'.resp.status \in {400, 401, 403}
              /\ ~req'.resp.called
              /\ req'.resp.payload = None
        /\ (RouteStep /\ ~RouteAllows(req.route, req.user.role))
           => /\ req'.pc = "done"
              /\ req'.resp.status = 403
              /\ ~req'.resp.called
              /\ req'.resp.payload = None
        /\ (req'.route \in Protected /\ req'.resp.called /\ ~req.resp.called)
           => /\ RouteStep
              /\ req.user # NoUser
              /\ RouteAllows(req.route, req.user.role)
        /\ (req'.route \in Protected /\ req'.resp.payload # None)
           => req.pc = "proxy" /\ req.resp.called
        /\ (req'.route \in Protected /\ req'.pc = "route")
           => req'.user # NoUser /\ ~req'.resp.called ]_vars

\* An authenticated user was stopped by the route's role check.
C5_Witness ==
    /\ req.pc = "done"
    /\ req.route \in Protected
    /\ req.user # NoUser
    /\ ~RouteAllows(req.route, req.user.role)
    /\ req.resp.status = 403
    /\ ~req.resp.called

(***************************************************************************)
(* C6  Decode failures are 401 or 403.  Whenever a decode performed for a  *)
(* protected GET fails, be it the dependency's decode or the route body's  *)
(* second decode of the same token, the response status is 401 or 403.     *)
(* The code answers 500 when the token expires between the two decodes.    *)
(***************************************************************************)
DecodeFails(token, t) == decode_access_token(token, t).err # "none"

\* The route body decodes the token only after its role check has passed.
SecondDecodeFails ==
    /\ RouteStep
    /\ RouteAllows(req.route, req.user.role)
    /\ DecodeFails(req.token, now)

\* C6: a failed decode, at either step, is answered 401 or 403.
C6_DecodeFailureIs401Or403 ==
    [][ ((AuthStep /\ DecodeFails(req'.token, now)) \/ SecondDecodeFails)
        => req'.resp.status \in {401, 403} ]_vars

(***************************************************************************)
(* C7  Inactive user.  A protected GET whose token is otherwise valid      *)
(* (signature, expiry, role on record) and whose subject is deactivated    *)
(* fails authentication: no route body, no upstream call.  As claimed the  *)
(* answer is 401 or 403; the code answers 400 "Inactive user".             *)
(***************************************************************************)
InactiveSubject(token, db, t) ==
    /\ SignatureVerifies(token)
    /\ Unexpired(token, t)
    /\ RoleOnRecord(token, db)
    /\ ~SubjectActive(token, db)

\* C7 as made: a deactivated subject's valid token is answered 401 or 403.
C7_InactiveIs401Or403 ==
    [][ (AuthStep /\ InactiveSubject(req'.token, store, now))
        => req'.pc = "done" /\ req'.resp.status \in {401, 403} ]_vars

\* C7 as amended: a deactivated subject's valid token is answered 400
\* "Inactive user", without route body or upstream call.
C7_InactiveIs400 ==
    [][ (AuthStep /\ InactiveSubject(req'.token, store, now))
        => /\ req'.pc = "done"
           /\ req'.resp.status = 400
           /\ req'.resp.detail = "Inactive user"
           /\ req'.user = NoUser
           /\ ~req'.resp.called
           /\ req'.resp.payload = None ]_vars

\* A deactivated user's valid token was refused.
C7_Witness ==
    /\ req.pc = "done"
    /\ req.route \in Protected
    /\ InactiveSubject(req.token, store, now)
    /\ req.resp.status = 400

(***************************************************************************)
(* C8  Token validity.  As claimed, authentication on a protected route    *)
(* accepts a token exactly when (a) its signature verifies, (b) the clock  *)
(* is before its expiry and (c) its role claim is the role stored for its  *)
(* subject.  The code needs a fourth condition: (d) the subject is active. *)
(***************************************************************************)
Accepted(r) == r.pc = "route" /\ r.user # NoUser

\* C8 as made: accepted if and only if (a), (b) and (c).
C8_ValidIffThree ==
    [][ AuthStep =>
          (Accepted(req') <=> /\ SignatureVerifies(req'.token)
                              /\ Unexpired(req'.token, now)
                              /\ RoleOnRecord(req'.token, store)) ]_vars

\* C8 as amended: accepted if and only if (a), (b), (c) and (d); the user
\* the route then sees is the subject's row.
C8_ValidIffFour ==
    [][ AuthStep =>
          /\ Accepted(req') <=> /\ SignatureVerifies(req'.token)
                                /\ Unexpired(req'.token, now)
                                /\ RoleOnRecord(req'.token, store)
                                /\ SubjectActive(req'.token, store)
          /\ Accepted(req') => req'.user = SubjectRow(req'.token, store) ]_vars

\* A minted token was accepted: all four conditions held at that step.
C8_Witness ==
    /\ req.pc = "route"
    /\ req.token \in MintedTokens
    /\ SignatureVerifies(req.token)
    /\ Unexpired(req.token, now)
    /\ RoleOnRecord(req.token, store)
    /\ SubjectActive(req.token, store)
    /\ req.user = SubjectRow(req.token, store)

(***************************************************************************)
(* C9  Credential binding.  A POST /token answered 200 carries a token     *)
(* that decodes to the user's name, the user's role (also the response's   *)
(* role field) and the access_token the upstream returned in that login.   *)
(* Whenever a protected GET calls upstream with a token a login minted,    *)
(* the Bearer credential it sends is the access_token of that login.       *)
(* As claimed the role is the stored role; the code mints the token after  *)
(* the upstream exchange from the row it loaded before it, so the role is  *)
(* the one that was stored when the credentials were checked.              *)
(***************************************************************************)
\* What both readings share: subject, upstream token, Bearer credential.
BindsSubjectAndUpstream ==
    /\ (ExchangeStep /\ req'.resp.status = 200) =>
         LET d == decode_access_token(req'.resp.access_token, now)
         IN  /\ d.err = "none"
             /\ d.payload.sub = req'.username
             /\ req'.resp.role = d.payload.role
             /\ req'.upstream.kind = "response"
             /\ d.payload.ext_token = req'.upstream.access_token
             /\ d.payload.ext_token \in UpstreamTokens
             /\ [token |-> req'.resp.access_token,
                 upstream_token |-> req'.upstream.access_token] \in minted'
    /\ (req'.pc = "done" /\ req'.route \in Protected /\ req'.resp.status = 200) =>
         req'.resp.called
    /\ (req'.route \in Protected /\ req'.resp.called) =>
         /\ req'.resp.path = req'.route
         /\ \A m \in minted :
               m.token = req'.token => req'.resp.bearer = m.upstream_token

\* C9 as made: the role claim of the token of a 200 answer is the role the
\* table stores for the user.
C9_RoleStoredAtAnswer ==
    [][ /\ BindsSubjectAndUpstream
        /\ (ExchangeStep /\ req'.resp.status = 200) =>
             /\ get_user(store, req'.username) # NoUser
             /\ req'.resp.access_token.payload.role
                    = get_user(store, req'.username).role ]_vars

\* C9 as amended: the role claim of the token of a 200 answer is the role
\* of the row the credential check loaded, which is the row the table then
\* stored for the user.
C9_CredentialBinding ==
    [][ /\ BindsSubjectAndUpstream
        /\ LoginStep =>
             req'.user = authenticate_user(store, req'.username, req'.password)
        /\ req.pc = "exchange" => req'.user = req.user
        /\ (ExchangeStep /\ req'.resp.status = 200) =>
             /\ req.user # NoUser
             /\ req.user.username = req'.username
             /\ req'.resp.access_token.payload.role = req.user.role ]_vars

\* A login was answered 200 with the role its credential check had loaded,
\* after the role stored for the user had been changed during the exchange.
C9_Witness ==
    /\ req.pc = "done"
    /\ req.route = "/token"
    /\ req.resp.status = 200
    /\ req.resp.access_token.payload.role = req.user.role
    /\ req.resp.access_token.payload.ext_token = req.upstream.access_token
    /\ get_user(store, req.username) # NoUser
    /\ get_user(store, req.username).role # req.user.role

(***************************************************************************)
(* C10  No validation oracle.  Every protected GET that fails local token  *)
(* validation (malformed token, bad signature, expired token, missing      *)
(* subject or role claim, unknown subject, role mismatch), at whichever    *)
(* step the validation is done, gets one and the same answer: 401 with     *)
(* the generic message.  The code answers the expiry seen by the route     *)
(* body's decode with 500 and the text of the decode error.                *)
(***************************************************************************)
ValidationFails(token, db, t) ==
    \/ DecodeFails(token, t)
    \/ token.payload.sub = None
    \/ token.payload.role = None
    \/ ~SubjectRow(token, db).present
    \/ Stale(token, db)

\* C10: every failed local validation is answered 401 with the generic
\* message.
C10_NoValidationOracle ==
    [][ ((AuthStep /\ ValidationFails(req'.token, store, now)) \/ SecondDecodeFails)
        => /\ req'.resp.status = 401
           /\ req'.resp.detail = GenericMessage ]_vars

====
